---- MODULE Spec2Model ----
(***************************************************************************)
(* zipsvr: a zip-code lookup server.  main loads the zip records from a    *)
(* CSV (or JSON) file, builds an index from lower-cased city name to the   *)
(* records of that city, registers /hello and /zips/city/ and serves.      *)
(*                                                                         *)
(* Go strings are modelled as sequences of one-character strings.  Go      *)
(* slices are records [nil, elems]: a nil slice and an empty non-nil slice *)
(* are different values, as encoding/json tells them apart.  The elements  *)
(* of a zipSlice are pointers: records [nil, Zip, City, State].            *)
(* Go indexes from 0 and TLA+ from 1: record[k] in the source is           *)
(* record[k + 1] here.                                                     *)
(***************************************************************************)
EXTENDS Integers, Sequences, FiniteSets, TLC

VARIABLES
    format,      \* which loader the build calls: "csv" (main.go:189) or "json" (main.go:188)
    addr,        \* the ADDR environment variable
    file,        \* the data file: [exists, rows, doc]
    pc,          \* where main is
    loaded,      \* what the loader returned: [outcome, zips, msg]
    zips,        \* main's zips (a zipSlice)
    next,        \* position of the build loop's range over zips
    zi,          \* the zipIndex: a function from lower-cased city to a slice of positions in zips
    registered,  \* the patterns registered with the default mux
    resp         \* per request worker, the last request it handled and its response

vars == <<format, addr, file, pc, loaded, zips, next, zi, registered, resp>>

-----------------------------------------------------------------------------
(* Bounds *)

\* The most data rows (CSV) or array elements (JSON) of a data file.
MaxRows == 2

\* The number of request workers whose last response is kept.
NumWorkers == 2

\* The field counts of CSV rows that are tried.
FieldCounts == {3, 7, 8}

\* The field counts of the CSV rows of the served data file.
ServedFieldCounts == {3, 7}

\* The city names of the data file.
Cities == {<<"A", "b">>, <<"a", "b">>, <<"c">>}

\* The zip codes of the data file the loaders are tried on, and of the served one.
ZipCodes == {<<"1">>, <<"2">>}
ServedZipCodes == {<<"1">>}

\* The city arguments of lookup requests (what follows /zips/city/).
CityArgs == {<<"A", "b">>, <<"a", "b">>, <<"x">>, <<"c", "/">>}

\* The name parameters of greeting requests.
Names == {<<>>, <<"A", "d", "a">>}

-----------------------------------------------------------------------------
(* Strings *)

\* unicode.ToLower on one character: upper-case letters map to their
\* lower-case letter, every other character to itself.
ToLowerRune(c) ==
    CASE c = "A" -> "a"
      [] c = "B" -> "b"
      [] c = "C" -> "c"
      [] c = "D" -> "d"
      [] c = "X" -> "x"
      [] OTHER -> c

\* strings.ToLower: the string with every character mapped by unicode.ToLower.
ToLower(s) == [i \in 1..Len(s) |-> ToLowerRune(s[i])]

\* strings.LastIndex(p, "/"), 1-based, 0 when p holds no slash.
LastSlash(p) ==
    IF \E i \in 1..Len(p) : p[i] = "/"
    THEN CHOOSE i \in 1..Len(p) : p[i] = "/" /\ \A j \in (i + 1)..Len(p) : p[j] # "/"
    ELSE 0

\* path.Split: the path split right after its final slash into (dir, file).
PathSplit(p) ==
    [dir |-> SubSeq(p, 1, LastSlash(p)), file |-> SubSeq(p, LastSlash(p) + 1, Len(p))]

-----------------------------------------------------------------------------
(* Types *)

\* A *zip: nil, or a pointer to a zip struct.
ZipPtr(z, c, s) == [nil |-> FALSE, Zip |-> z, City |-> c, State |-> s]
NilZip == [nil |-> TRUE, Zip |-> <<>>, City |-> <<>>, State |-> <<>>]

\* A slice: nil, or non-nil with elements.
NilSlice == [nil |-> TRUE, elems |-> <<>>]
MakeSlice == [nil |-> FALSE, elems |-> <<>>]
SliceAppend(s, e) == [nil |-> FALSE, elems |-> Append(s.elems, e)]

-----------------------------------------------------------------------------
(* Data files *)

\* A CSV row of n fields with the zip code in position 0, the city in
\* position 3 and the state in position 6, where the row has them.
Row(n, z, c, s) ==
    [i \in 1..n |-> IF i = 1 THEN z ELSE IF i = 4 THEN c ELSE IF i = 7 THEN s ELSE <<"x">>]

\* A header row of n column names.
HeaderRow(n) == [i \in 1..n |-> <<"h">>]

\* A line that encoding/csv cannot parse: a bare quote in a non-quoted field.
BadRow == << <<"x", "\"", "y">> >>

HasBareQuote(record) ==
    \E i \in 1..Len(record) : \E j \in 1..Len(record[i]) : record[i][j] = "\""

RECURSIVE SeqsUpTo(_, _)
\* The sequences of at most n elements of S.
SeqsUpTo(S, n) ==
    IF n = 0 THEN {<<>>}
    ELSE LET shorter == SeqsUpTo(S, n - 1)
         IN  shorter \cup {Append(q, e) : q \in {r \in shorter : Len(r) = n - 1}, e \in S}

NoDoc == [kind |-> "empty", elems |-> <<>>]

CSVFile(rows) == [exists |-> TRUE, rows |-> rows, doc |-> NoDoc]
JSONFile(doc) == [exists |-> TRUE, rows |-> <<>>, doc |-> doc]
MissingFile == [exists |-> FALSE, rows |-> <<>>, doc |-> NoDoc]

DataRows(counts, codes) ==
    {Row(n, z, c, <<"W", "A">>) : n \in counts, z \in codes, c \in Cities}

\* The CSV files: empty, or a header row followed by at most MaxRows rows.
CSVFiles(counts, codes, extra) ==
    {CSVFile(<<>>)} \cup
    {CSVFile(<<HeaderRow(n)>> \o body) :
        n \in counts, body \in SeqsUpTo(DataRows(counts, codes) \cup extra, MaxRows)}

\* The elements of a JSON array: an object, null, or a value that is no object.
JSONElems ==
    {[kind |-> "obj", z |-> ZipPtr(z, c, <<"W", "A">>)] : z \in ZipCodes, c \in Cities}
    \cup {[kind |-> "null", z |-> NilZip], [kind |-> "bad", z |-> NilZip]}

\* The JSON documents: an empty stream, null, a value that is no array,
\* text that is no JSON, an array cut short, or an array.
JSONDocs ==
    {[kind |-> k, elems |-> <<>>] : k \in {"empty", "null", "scalar", "syntax"}}
    \cup {[kind |-> k, elems |-> e] : k \in {"array", "truncated"}, e \in SeqsUpTo(JSONElems, MaxRows)}

-----------------------------------------------------------------------------
(* The loaders *)

\* What a loader call comes to: (zips, nil), (nil, err), or a panic.
Loaded(z) == [outcome |-> "ok", zips |-> z, msg |-> ""]
LoadError(m) == [outcome |-> "error", zips |-> NilSlice, msg |-> m]
LoadPanic == [outcome |-> "panic", zips |-> NilSlice, msg |-> "index out of range"]
NotLoaded == [outcome |-> "none", zips |-> NilSlice, msg |-> ""]

\* The number of fields a record needs for record[6] to exist.
MinFields == 7

\* The city taken from position 2 of the record.
RecordToZipWrongCity(record) == ZipPtr(record[1], record[3], record[7])

\* z := &zip{Zip: record[0], City: record[3], State: record[6]}
RecordToZip(record) == ZipPtr(record[1], record[4], record[7])

\* io.EOF inside the loop returned as any other error.
CSVAtEOFError(z) == LoadError("error loading zips from CSV")

\* reader.Read() returned io.EOF inside the loop: return zips, nil.
CSVAtEOF(z) == Loaded(z)

\* csv.Reader.Read on the next line: a parse error for a line it cannot
\* parse, ErrFieldCount for a record whose number of fields differs from the
\* first record's (FieldsPerRecord is 0, so the first record sets it).
CSVReadError(record, fieldsPerRecord) ==
    HasBareQuote(record) \/ (fieldsPerRecord # 0 /\ Len(record) # fieldsPerRecord)

RECURSIVE CSVLoop(_, _, _, _)
\* The for loop of loadZipsFromCSV from line k of the file on.
CSVLoop(rows, k, fieldsPerRecord, z) ==
    IF k > Len(rows) THEN CSVAtEOF(z)
    ELSE IF CSVReadError(rows[k], fieldsPerRecord)
         THEN LoadError("error loading zips from CSV")
    ELSE IF Len(rows[k]) < MinFields THEN LoadPanic
    ELSE CSVLoop(rows, k + 1, fieldsPerRecord, SliceAppend(z, RecordToZip(rows[k])))

loadZipsFromCSV(f) ==
    IF ~f.exists THEN LoadError("error opening zips file")
    ELSE IF Len(f.rows) = 0 THEN LoadError("error reading CSV field names")
    ELSE IF CSVReadError(f.rows[1], 0) THEN LoadError("error reading CSV field names")
    ELSE CSVLoop(f.rows, 2, Len(f.rows[1]), MakeSlice)

\* json.Decoder.Decode(&zips): io.EOF on an empty stream, an error for text
\* that is no JSON, that ends early or that holds a value of the wrong
\* type; null sets the slice to nil; an array sets it to the array's
\* elements, a null element being a nil pointer.
loadZipsFromJSON(f) ==
    IF ~f.exists THEN LoadError("error opening zips file")
    ELSE IF f.doc.kind = "empty" THEN LoadError("error decoding zips from json")
    ELSE IF f.doc.kind \in {"syntax", "truncated", "scalar"}
         THEN LoadError("error decoding zips from json")
    ELSE IF f.doc.kind = "null" THEN Loaded(NilSlice)
    ELSE IF \E i \in 1..Len(f.doc.elems) : f.doc.elems[i].kind = "bad"
         THEN LoadError("error decoding zips from json")
    ELSE Loaded([nil |-> FALSE, elems |-> [i \in 1..Len(f.doc.elems) |-> f.doc.elems[i].z]])

-----------------------------------------------------------------------------
(* The zipIndex *)

\* zi[key]: the group stored under key, the nil slice when there is none.
IndexGet(index, key) == IF key \in DOMAIN index THEN index[key] ELSE NilSlice

\* zi[lower] = zipSlice{z}: the group replaced, not appended to.
IndexAddOverwrite(index, lower, p) ==
    [k \in DOMAIN index \cup {lower} |->
        IF k = lower THEN SliceAppend(NilSlice, p) ELSE index[k]]

\* zi[lower] = append(zipSlice{z}, zi[lower]...): the group prepended to.
IndexAddPrepend(index, lower, p) ==
    [k \in DOMAIN index \cup {lower} |->
        IF k = lower THEN [nil |-> FALSE, elems |-> <<p>> \o IndexGet(index, lower).elems]
        ELSE index[k]]

\* zi[lower] = append(zi[lower], z), z being the pointer at position p of zips.
IndexAdd(index, lower, p) ==
    [k \in DOMAIN index \cup {lower} |->
        IF k = lower THEN SliceAppend(IndexGet(index, lower), p) ELSE index[k]]

-----------------------------------------------------------------------------
(* http.ResponseWriter, as the net/http server implements it *)

StatusOK == 200
StatusInternalServerError == 500

\* A piece of a response body.
Tok(t) == [t |-> t, s |-> <<>>, z |-> NilZip]
Text(t, s) == [t |-> t, s |-> s, z |-> NilZip]
Obj(z) == [t |-> "obj", s |-> <<>>, z |-> z]

\* header: what the handler has set; sent: the headers that went out with
\* the status line; status: 0 until the status line is written.
NewResponse == [header |-> {}, wroteHeader |-> FALSE, status |-> 0, sent |-> {}, body |-> <<>>]

\* w.Header().Add(key, value)
HeaderAdd(w, key, value) == [w EXCEPT !.header = @ \cup {<<key, value>>}]

\* w.Header().Set(key, value)
HeaderSet(w, key, value) ==
    [w EXCEPT !.header = {h \in @ : h[1] # key} \cup {<<key, value>>}]

\* w.WriteHeader(code): the first call sends the status line and the headers
\* set so far; a later call is logged as superfluous and changes nothing.
WriteHeader(w, code) ==
    IF w.wroteHeader THEN w
    ELSE [w EXCEPT !.wroteHeader = TRUE, !.status = code, !.sent = w.header]

\* w.Write(data): sends the header with StatusOK if none was sent, then the
\* data.  ok is whether the connection takes the data; when it does not,
\* Write returns an error and nothing of data is delivered.
Write(w, data, ok) ==
    LET w1 == WriteHeader(w, StatusOK)
    IN  IF ok THEN [w |-> [w1 EXCEPT !.body = @ \o data], err |-> FALSE]
        ELSE [w |-> w1, err |-> TRUE]

\* http.Error(w, msg, code)
httpError(w, msg, code, ok) ==
    LET w1 == HeaderSet(w, "Content-Type", "text/plain; charset=utf-8")
        w2 == HeaderSet(w1, "X-Content-Type-Options", "nosniff")
        w3 == WriteHeader(w2, code)
    IN  Write(w3, <<Tok(msg), Tok("\n")>>, ok).w

-----------------------------------------------------------------------------
(* encoding/json *)

RECURSIVE EncodeElems(_, _, _)
\* The elements of a slice of pointers from position k on, comma-separated.
EncodeElems(elems, heap, k) ==
    IF k > Len(elems) THEN <<>>
    ELSE (IF k > 1 THEN <<Tok(",")>> ELSE <<>>)
         \o <<IF heap[elems[k]].nil THEN Tok("null") ELSE Obj(heap[elems[k]])>>
         \o EncodeElems(elems, heap, k + 1)

\* json.NewEncoder(w).Encode(group): a nil slice encodes as null, any other
\* as an array; Encode ends the value with a newline.
Encode(group, heap) ==
    IF group.nil THEN <<Tok("null"), Tok("\n")>>
    ELSE <<Tok("[")>> \o EncodeElems(group.elems, heap, 1) \o <<Tok("]"), Tok("\n")>>

-----------------------------------------------------------------------------
(* The handlers *)

\* The path of a lookup request with city argument arg.
ZipsPath(arg) == <<"/", "z", "i", "p", "s", "/", "c", "i", "t", "y", "/">> \o arg

\* The city argument looked up as it came, not lower-cased.
LookupKeyNoLower(path) == PathSplit(path).file

\* _, city := path.Split(r.URL.Path); lcity := strings.ToLower(city)
LookupKey(path) == ToLower(PathSplit(path).file)

\* helloHandler; the error of w.Write is dropped.
helloHandler(name, ok) ==
    LET n == IF Len(name) = 0 THEN <<"W", "o", "r", "l", "d">> ELSE name
        w1 == HeaderAdd(NewResponse, "Content-Type", "text/plain")
    IN  Write(w1, <<Text("text", <<"H", "e", "l", "l", "o", " ">> \o n)>>, ok).w

\* zi.zipsForCityHandler
zipsForCityHandler(index, heap, path, ok) ==
    LET lcity == LookupKey(path)
        w1 == HeaderAdd(NewResponse, "Content-Type", "application/json; charset=utf-8")
        w2 == HeaderAdd(w1, "Access-Control-Allow-Origin", "*")
        r == Write(w2, Encode(IndexGet(index, lcity), heap), ok)
    IN  IF r.err
        THEN httpError(r.w, "error encoding json: write failed", StatusInternalServerError, ok)
        ELSE r.w

Idle == [kind |-> "none", arg |-> <<>>, ok |-> TRUE, w |-> NewResponse]

-----------------------------------------------------------------------------
(* main *)

Workers == 1..NumWorkers

\* addr := os.Getenv("ADDR"); log.Fatal when it is empty.
GetAddr ==
    /\ pc = "main"
    /\ pc' = IF Len(addr) = 0 THEN "exited" ELSE "load"
    /\ UNCHANGED <<format, addr, file, loaded, zips, next, zi, registered, resp>>

\* main going on to build the index whatever the loader returned.
LoadZipsIgnoreErr ==
    /\ pc = "load"
    /\ loaded' = IF format = "csv" THEN loadZipsFromCSV(file) ELSE loadZipsFromJSON(file)
    /\ zips' = loaded'.zips
    /\ zi' = << >>
    /\ next' = 1
    /\ pc' = "build"
    /\ UNCHANGED <<format, addr, file, registered, resp>>

\* zips, err := loadZipsFromCSV(...); log.Fatal on an error.  A panic in the
\* loader ends the process too.
LoadZips ==
    /\ pc = "load"
    /\ loaded' = IF format = "csv" THEN loadZipsFromCSV(file) ELSE loadZipsFromJSON(file)
    /\ IF loaded'.outcome = "ok"
       THEN /\ zips' = loaded'.zips
            /\ zi' = << >>
            /\ next' = 1
            /\ pc' = "build"
       ELSE /\ pc' = IF loaded'.outcome = "panic" THEN "panicked" ELSE "exited"
            /\ UNCHANGED <<zips, zi, next>>
    /\ UNCHANGED <<format, addr, file, registered, resp>>

\* One iteration of: for _, z := range zips { lower := strings.ToLower(z.City); ... }
BuildStep ==
    /\ pc = "build"
    /\ next <= Len(zips.elems)
    /\ IF zips.elems[next].nil
       THEN pc' = "panicked" /\ UNCHANGED <<zi, next>>
       ELSE /\ zi' = IndexAdd(zi, ToLower(zips.elems[next].City), next)
            /\ next' = next + 1
            /\ pc' = pc
    /\ UNCHANGED <<format, addr, file, loaded, zips, registered, resp>>

\* The loop is over: http.HandleFunc("/hello", ...), http.HandleFunc("/zips/city/", ...).
Register ==
    /\ pc = "build"
    /\ next > Len(zips.elems)
    /\ registered' = {"/hello", "/zips/city/"}
    /\ pc' = "listen"
    /\ UNCHANGED <<format, addr, file, loaded, zips, next, zi, resp>>

\* http.ListenAndServe(addr, nil): serves, or returns an error (log.Fatal)
\* when it cannot bind.
ListenAndServe ==
    /\ pc = "listen"
    /\ \E bound \in BOOLEAN : pc' = IF bound THEN "serving" ELSE "exited"
    /\ UNCHANGED <<format, addr, file, loaded, zips, next, zi, registered, resp>>

\* A worker serves a request for /hello.
ServeHello(w, name, ok) ==
    /\ pc = "serving"
    /\ "/hello" \in registered
    /\ resp' = [resp EXCEPT ![w] = [kind |-> "hello", arg |-> name, ok |-> ok,
                                     w |-> helloHandler(name, ok)]]
    /\ UNCHANGED <<format, addr, file, pc, loaded, zips, next, zi, registered>>

\* A lookup that stores an empty group under a key the index lacks.
ServeZipsStoring(w, arg, ok) ==
    /\ pc = "serving"
    /\ "/zips/city/" \in registered
    /\ resp' = [resp EXCEPT ![w] = [kind |-> "zips", arg |-> arg, ok |-> ok,
                                     w |-> zipsForCityHandler(zi, zips.elems, ZipsPath(arg), ok)]]
    /\ zi' = IF LookupKey(ZipsPath(arg)) \in DOMAIN zi THEN zi
             ELSE [k \in DOMAIN zi \cup {LookupKey(ZipsPath(arg))} |->
                      IF k \in DOMAIN zi THEN zi[k] ELSE MakeSlice]
    /\ UNCHANGED <<format, addr, file, pc, loaded, zips, next, registered>>

\* A worker serves a request for a path under /zips/city/.
ServeZips(w, arg, ok) ==
    /\ pc = "serving"
    /\ "/zips/city/" \in registered
    /\ resp' = [resp EXCEPT ![w] = [kind |-> "zips", arg |-> arg, ok |-> ok,
                                     w |-> zipsForCityHandler(zi, zips.elems, ZipsPath(arg), ok)]]
    /\ UNCHANGED <<format, addr, file, pc, loaded, zips, next, zi, registered>>

Init ==
    /\ format = "csv"
    /\ addr \in {<<>>, <<":", "8", "0">>}
    /\ file \in {MissingFile} \cup CSVFiles(ServedFieldCounts, ServedZipCodes, {BadRow})
    /\ pc = "main"
    /\ loaded = NotLoaded
    /\ zips = NilSlice
    /\ next = 1
    /\ zi = << >>
    /\ registered = {}
    /\ resp = [w \in Workers |-> Idle]

Next ==
    \/ GetAddr
    \/ LoadZips
    \/ BuildStep
    \/ Register
    \/ ListenAndServe
    \/ \E w \in Workers, name \in Names, ok \in BOOLEAN : ServeHello(w, name, ok)
    \/ \E w \in Workers, arg \in CityArgs, ok \in BOOLEAN : ServeZips(w, arg, ok)

Spec == Init /\ [][Next]_vars

-----------------------------------------------------------------------------
(* The loaders on their own *)

\* A call of the loader the build selects.
CallLoader ==
    /\ pc = "call"
    /\ loaded' = IF format = "csv" THEN loadZipsFromCSV(file) ELSE loadZipsFromJSON(file)
    /\ pc' = "returned"
    /\ UNCHANGED <<format, addr, file, zips, next, zi, registered, resp>>

InitLoad ==
    /\ \/ format = "csv" /\ file \in {MissingFile} \cup CSVFiles(FieldCounts, ZipCodes, {BadRow})
       \/ format = "json" /\ file \in {MissingFile} \cup {JSONFile(d) : d \in JSONDocs}
    /\ addr = <<>>
    /\ pc = "call"
    /\ loaded = NotLoaded
    /\ zips = NilSlice
    /\ next = 1
    /\ zi = << >>
    /\ registered = {}
    /\ resp = [w \in Workers |-> Idle]

NextLoad == CallLoader

SpecLoad == InitLoad /\ [][NextLoad]_vars

-----------------------------------------------------------------------------
(* Properties *)

\* The lookup responses.
IsLookup(w) == resp[w].kind = "zips"

\* The records of a response body, in the order the body lists them.
BodyRecords(body) ==
    LET IsObj(t) == t.t = "obj"
        objs == SelectSeq(body, IsObj)
    IN  [i \in 1..Len(objs) |-> objs[i].z]

\* The records of zips whose lower-cased city is key, in load order.
RecordsOf(key) ==
    LET Matches(z) == ToLower(z.City) = key
    IN  SelectSeq(zips.elems, Matches)

\* The places <<key, j>> of the index that hold position p of zips.
PlacesOf(p) ==
    {kj \in UNION {{<<k, j>> : j \in 1..Len(zi[k].elems)} : k \in DOMAIN zi} :
        zi[kj[1]].elems[kj[2]] = p}

\* Two strings that differ in the case of their letters at most.
CasePairs == {<<"A", "a">>, <<"B", "b">>, <<"C", "c">>, <<"D", "d">>, <<"X", "x">>}
SameButCase(a, b) ==
    /\ Len(a) = Len(b)
    /\ \A i \in 1..Len(a) : a[i] = b[i] \/ <<a[i], b[i]>> \in CasePairs \/ <<b[i], a[i]>> \in CasePairs

\* A CSV file all of whose rows parse, have the header's number of fields
\* and have the fields the loader reads.
CleanRows(rows) ==
    \A k \in 1..Len(rows) :
        /\ ~HasBareQuote(rows[k])
        /\ Len(rows[k]) = Len(rows[1])
        /\ Len(rows[k]) >= MinFields

\* C1: a lookup of a city the index has no group for answers with status
\* 200 and the body [] (an empty JSON array).
C1_AbsentCityEmptyArray ==
    \A w \in Workers :
        (IsLookup(w) /\ resp[w].ok /\ ToLower(PathSplit(ZipsPath(resp[w].arg)).file) \notin DOMAIN zi)
        => /\ resp[w].w.status = 200
           /\ resp[w].w.body \in {<<Tok("["), Tok("]")>>, <<Tok("["), Tok("]"), Tok("\n")>>}

\* C2: once the build loop is over, every loaded record is in exactly one
\* place of the index, in the group whose key is its lower-cased city; no
\* group holds a record of another city, and no records give no keys.
C2_EveryRecordInItsGroup ==
    registered # {} =>
        /\ \A p \in 1..Len(zips.elems) :
              /\ Cardinality(PlacesOf(p)) = 1
              /\ \A kj \in PlacesOf(p) : kj[1] = ToLower(zips.elems[p].City)
        /\ \A k \in DOMAIN zi : \A j \in 1..Len(zi[k].elems) :
              /\ zi[k].elems[j] \in 1..Len(zips.elems)
              /\ ToLower(zips.elems[zi[k].elems[j]].City) = k
        /\ (Len(zips.elems) = 0 => DOMAIN zi = {})

C2_Witness ==
    /\ registered # {}
    /\ Len(zips.elems) = 2
    /\ zips.elems[1].City # zips.elems[2].City
    /\ Cardinality(DOMAIN zi) = 1

\* C3: when the encoder's write to the response fails, the response has
\* status 500.
C3_EncodeFailureGives500 ==
    \A w \in Workers :
        (IsLookup(w) /\ ~resp[w].ok) => resp[w].w.status = 500

\* C4: handlers are registered and requests served only after the address
\* was found, the loader returned without error and the build loop went
\* over all loaded records; with no address or a failed load the process
\* has ended without registering a handler or serving a request.
C4_ServeOnlyAfterBuild ==
    /\ (registered # {} \/ pc \in {"listen", "serving"} \/ \E w \in Workers : resp[w].kind # "none")
        => /\ Len(addr) > 0
           /\ loaded.outcome = "ok"
           /\ zips = loaded.zips
           /\ next = Len(zips.elems) + 1
           /\ \A p \in 1..Len(zips.elems) : PlacesOf(p) # {}
    /\ (\E w \in Workers : resp[w].kind # "none") => pc = "serving"
    /\ (Len(addr) = 0 \/ loadZipsFromCSV(file).outcome # "ok")
        => /\ registered = {}
           /\ \A w \in Workers : resp[w].kind = "none"
           /\ pc \in {"main", "load", "exited", "panicked"}
    /\ (Len(addr) = 0 /\ pc # "main") => pc = "exited"
    /\ loaded.outcome = "error" => pc = "exited"

C4_Witness ==
    /\ pc = "serving"
    /\ Len(zips.elems) = 2
    /\ \A w \in Workers : resp[w].kind # "none"

\* C5: a CSV file with a data row of fewer than 7 fields makes
\* loadZipsFromCSV return an error and no records, whatever the header row.
C5_ShortRowReportsError ==
    (/\ pc = "returned"
     /\ format = "csv"
     /\ file.exists
     /\ \E k \in 2..Len(file.rows) : Len(file.rows[k]) < 7)
    => (loaded.outcome = "error" /\ loaded.zips = NilSlice)

\* C6: the records of a lookup response are the loaded records whose
\* lower-cased city is the lower-cased last segment of the path, in the
\* order they were loaded.
C6_GroupInLoadOrder ==
    \A w \in Workers :
        (IsLookup(w) /\ resp[w].ok)
        => /\ resp[w].w.status = 200
           /\ BodyRecords(resp[w].w.body) = RecordsOf(ToLower(PathSplit(ZipsPath(resp[w].arg)).file))

C6_Witness ==
    \E w \in Workers :
        /\ IsLookup(w) /\ resp[w].ok
        /\ Len(zips.elems) = 2
        /\ Len(BodyRecords(resp[w].w.body)) = 2
        /\ zips.elems[1] # zips.elems[2]

\* C7: two lookups whose city arguments differ in letter case only get the
\* same response: status, headers and body.
C7_CaseInsensitive ==
    \A w1, w2 \in Workers :
        (/\ IsLookup(w1) /\ IsLookup(w2)
         /\ resp[w1].ok = resp[w2].ok
         /\ PathSplit(ZipsPath(resp[w1].arg)).dir = PathSplit(ZipsPath(resp[w2].arg)).dir
         /\ SameButCase(PathSplit(ZipsPath(resp[w1].arg)).file, PathSplit(ZipsPath(resp[w2].arg)).file))
        => resp[w1].w = resp[w2].w

C7_Witness ==
    \E w1, w2 \in Workers :
        /\ IsLookup(w1) /\ IsLookup(w2)
        /\ resp[w1].ok /\ resp[w2].ok
        /\ resp[w1].arg # resp[w2].arg
        /\ SameButCase(resp[w1].arg, resp[w2].arg)
        /\ Len(BodyRecords(resp[w1].w.body)) > 0

\* C8: once the index is built, no request changes it.
C8_IndexNeverChanges ==
    [][registered # {} => (zi' = zi /\ zips' = zips)]_vars

C8_Witness ==
    \E w1, w2 \in Workers :
        /\ pc = "serving"
        /\ IsLookup(w1) /\ LookupKey(ZipsPath(resp[w1].arg)) \in DOMAIN zi
        /\ IsLookup(w2) /\ LookupKey(ZipsPath(resp[w2].arg)) \notin DOMAIN zi

\* C9: for a valid CSV file loadZipsFromCSV returns, with no error, one
\* record per row after the first, in file order, with the zip code of
\* field 0, the city of field 3 and the state of field 6.
C9_OneRecordPerDataRow ==
    (/\ pc = "returned"
     /\ format = "csv"
     /\ file.exists
     /\ Len(file.rows) >= 1
     /\ CleanRows(file.rows))
    => /\ loaded.outcome = "ok"
       /\ ~loaded.zips.nil
       /\ Len(loaded.zips.elems) = Len(file.rows) - 1
       /\ \A k \in 1..Len(loaded.zips.elems) :
             loaded.zips.elems[k] =
                 [nil |-> FALSE, Zip |-> file.rows[k + 1][1], City |-> file.rows[k + 1][4],
                  State |-> file.rows[k + 1][7]]

C9_Witness ==
    /\ pc = "returned"
    /\ format = "csv"
    /\ file.exists
    /\ Len(file.rows) = 3
    /\ CleanRows(file.rows)
    /\ file.rows[2] # file.rows[3]

====
